---------------------------- MODULE Spec2Model ----------------------------
(***************************************************************************)
(* A model of rna, the naive RISC-V B-extension assembler (src/main.rs).   *)
(*                                                                         *)
(* Text is modelled as a sequence of atoms.  An atom is a TLA+ string that *)
(* stands for a run of characters that the program never looks inside: a   *)
(* word ("add.uw", "a0", "xor"), one whitespace character (" ", "\t"),     *)
(* one separator (","), one digit or one sign.  The pools below never put  *)
(* two atoms side by side that would spell another atom, so two texts are  *)
(* equal exactly when their atom sequences are equal.                      *)
(*                                                                         *)
(* A Rust panic unwinds and drops the value under construction; every      *)
(* operator that can panic returns a record with a field "panicked".       *)
(***************************************************************************)
EXTENDS Integers, Sequences, FiniteSets, TLC

VARIABLES
    pc,               \* position of the run: which step comes next
    overflow_checks,  \* build profile: TRUE = debug (overflow panics), FALSE = release (wraps)
    raw_line,         \* main: one line of the input text, as read
    line,             \* main: the line after trim and to_lowercase, handed to parse_line
    inst,             \* the TextInstruction
    res,              \* what convert returned
    out,              \* what was rendered or printed
    buf,              \* a BinaryInstruction under construction (field-setter runs)
    prev,             \* the buffer before the last write (field-setter runs)
    last,             \* the last method called on its own, its arguments and its result
    calls             \* the setters that have returned so far (field-setter runs); in the
                      \* recipe runs each with its place in the arm and the bits it wrote

vars == <<pc, overflow_checks, raw_line, line, inst, res, out, buf, prev, last, calls>>

-----------------------------------------------------------------------------
(* Text helpers *)

SP == " "
TAB == "\t"
COMMA == ","

\* char::is_whitespace, on the atoms of the model
IsWhitespace(a) == a \in {SP, TAB}

DigitAtoms == <<"0", "1", "2", "3", "4", "5", "6", "7", "8", "9">>

IsDigit(a) == \E i \in 1..10 : DigitAtoms[i] = a

DigitValue(a) == (CHOOSE i \in 1..10 : DigitAtoms[i] = a) - 1

Pow2(n) == 2 ^ n

-----------------------------------------------------------------------------
(* Register table: lazy_static REG_MAP and reg_name2value *)

REG_MAP ==
    [n \in {"zero", "ra", "sp", "gp", "tp", "t0", "t1", "t2", "s0", "fp", "s1",
            "a0", "a1", "a2", "a3", "a4", "a5", "a6", "a7", "s2", "s3", "s4",
            "s5", "s6", "s7", "s8", "s9", "s10", "s11", "t3", "t4", "t5", "t6"} |->
        CASE n = "zero" -> 0  [] n = "ra" -> 1   [] n = "sp" -> 2   [] n = "gp" -> 3
          [] n = "tp" -> 4    [] n = "t0" -> 5   [] n = "t1" -> 6   [] n = "t2" -> 7
          [] n = "s0" -> 8    [] n = "fp" -> 8   [] n = "s1" -> 9   [] n = "a0" -> 10
          [] n = "a1" -> 11   [] n = "a2" -> 12  [] n = "a3" -> 13  [] n = "a4" -> 14
          [] n = "a5" -> 15   [] n = "a6" -> 16  [] n = "a7" -> 17  [] n = "s2" -> 18
          [] n = "s3" -> 19   [] n = "s4" -> 20  [] n = "s5" -> 21  [] n = "s6" -> 22
          [] n = "s7" -> 23   [] n = "s8" -> 24  [] n = "s9" -> 25  [] n = "s10" -> 26
          [] n = "s11" -> 27  [] n = "t3" -> 28  [] n = "t4" -> 29  [] n = "t5" -> 30
          [] n = "t6" -> 31]

\* HashMap::get: the text must spell a key of the table exactly
RegLookup(name) == Len(name) = 1 /\ name[1] \in DOMAIN REG_MAP

\* an unknown name resolved to register 0 instead of a panic
reg_name2value_default(name) ==
    IF ~RegLookup(name)
    THEN [panicked |-> FALSE, val |-> 0]
    ELSE [panicked |-> FALSE, val |-> REG_MAP[name[1]]]

reg_name2value(name) ==
    IF ~RegLookup(name)
    THEN [panicked |-> TRUE, val |-> 0]
    ELSE [panicked |-> FALSE, val |-> REG_MAP[name[1]]]

-----------------------------------------------------------------------------
(* BinaryInstruction *)

new == [data |-> <<0, 0, 0, 0>>, flag_shamt |-> FALSE, flag_funct6 |-> FALSE,
        panicked |-> FALSE]

\* what is left of a buffer whose construction panicked
Panicked == [data |-> <<0, 0, 0, 0>>, flag_shamt |-> FALSE, flag_funct6 |-> FALSE,
             panicked |-> TRUE]

\* u8 >> n and 1u8 << n with a shift amount of 8 or more: overflow; a debug
\* build panics, a release build uses the amount modulo 8
ShiftOverflows(n) == n >= 8 /\ overflow_checks

ShiftAmount(n) == IF n >= 8 THEN n % 8 ELSE n

\* the mask shifted one place too far
BitOfByte_from_one(val, index) == (val \div Pow2(ShiftAmount(index + 1))) % 2

\* (val & (1 << index)) > 0
BitOfByte(val, index) == (val \div Pow2(ShiftAmount(index))) % 2

\* the width assertion dropped: the value is truncated to `count` bits
bits_array_unchecked(val, count) ==
    IF ShiftOverflows(count)
    THEN [panicked |-> TRUE, bits |-> <<>>]
    ELSE [panicked |-> FALSE,
          bits |-> [i \in 1..count |-> BitOfByte(val, i - 1)]]

bits_array(val, count) ==
    IF ShiftOverflows(count)
    THEN [panicked |-> TRUE, bits |-> <<>>]
    ELSE IF val \div Pow2(ShiftAmount(count)) # 0
    THEN [panicked |-> TRUE, bits |-> <<>>]
    ELSE [panicked |-> FALSE,
          bits |-> [i \in 1..count |-> BitOfByte(val, i - 1)]]

\* the clearing branch lost: a bit is only ever set
SetBit_never_clears(data, index, bit) ==
    LET byte_index == index \div 8
        bit_index == index % 8
        old == data[byte_index + 1]
        isset == (old \div Pow2(bit_index)) % 2 = 1
    IN  [data EXCEPT ![byte_index + 1] =
            IF bit = 0 THEN old
            ELSE (IF isset THEN old ELSE old + Pow2(bit_index))]

\* one turn of the loop of set: clear or set bit `index` of the word
SetBit(data, index, bit) ==
    LET byte_index == index \div 8
        bit_index == index % 8
        old == data[byte_index + 1]
        isset == (old \div Pow2(bit_index)) % 2 = 1
    IN  [data EXCEPT ![byte_index + 1] =
            IF bit = 0
            THEN (IF isset THEN old - Pow2(bit_index) ELSE old)
            ELSE (IF isset THEN old ELSE old + Pow2(bit_index))]

RECURSIVE SetLoop(_, _, _, _, _)
SetLoop(b, begin, index, end, bits) ==
    IF index > end THEN b
    ELSE IF index \div 8 >= 4 THEN Panicked                \* data[byte_index] out of bounds
    ELSE IF bits[index - begin + 1] \notin {0, 1} THEN Panicked
    ELSE SetLoop([b EXCEPT !.data = SetBit(b.data, index, bits[index - begin + 1])],
                 begin, index + 1, end, bits)

\* set bits at positions [begin, end]; begin and end are u8, the arithmetic is usize
set(b, begin, end, bits) ==
    IF b.panicked THEN Panicked
    ELSE IF end < begin /\ overflow_checks THEN Panicked  \* end - begin underflows
    ELSE IF end + 1 < begin THEN Panicked                 \* wraps to a huge length
    ELSE IF end - begin + 1 # Len(bits) THEN Panicked
    ELSE SetLoop(b, begin, begin, end, bits)

get(b, begin, end) ==
    [i \in 1..(end - begin + 1) |->
        LET index == begin + i - 1
        IN  (b.data[(index \div 8) + 1] \div Pow2(index % 8)) % 2]

\* set(begin, end, bits_array(val, count)): the shape of every field setter
SetValue(b, begin, end, val, count) ==
    LET bits == bits_array(val, count)
    IN  IF b.panicked \/ bits.panicked THEN Panicked
        ELSE set(b, begin, end, bits.bits)

\* a field setter that resolves a register name first
SetRegister(b, begin, end, name) ==
    LET r == reg_name2value(name)
    IN  IF b.panicked \/ r.panicked THEN Panicked
        ELSE SetValue(b, begin, end, r.val, 5)

set_opcode(b, opcode) == SetValue(b, 0, 6, opcode, 7)

set_rd(b, rd) == SetRegister(b, 7, 11, rd)

set_funct3(b, funct3) == SetValue(b, 12, 14, funct3, 3)

\* a slip of one bit in the position of rs1
set_rs1_off_by_one(b, rs1) == SetRegister(b, 16, 20, rs1)

set_rs1(b, rs1) == SetRegister(b, 15, 19, rs1)

set_rs2(b, rs2) == SetRegister(b, 20, 24, rs2)

\* the marker of shamt forgotten
set_shamt_no_flag(b, shamt) == SetValue(b, 20, 25, shamt, 6)

set_shamt(b, shamt) ==
    LET b2 == SetValue(b, 20, 25, shamt, 6)
    IN  IF b2.panicked THEN Panicked ELSE [b2 EXCEPT !.flag_shamt = TRUE]

set_funct6(b, funct6) ==
    LET b2 == SetValue(b, 26, 31, funct6, 6)
    IN  IF b2.panicked THEN Panicked ELSE [b2 EXCEPT !.flag_funct6 = TRUE]

\* the funct7 field one bit short
set_funct7_narrow(b, funct7) == SetValue(b, 26, 31, funct7, 6)

set_funct7(b, funct7) == SetValue(b, 25, 31, funct7, 7)

\* operands[i] of a Vec: out of bounds panics
HasOperand(operands, i) == i + 1 <= Len(operands)

set_operands(b, operands) ==
    IF b.panicked \/ Len(operands) # 3 THEN Panicked
    ELSE set_rs2(set_rs1(set_rd(b, operands[1]), operands[2]), operands[3])

\* the constant of the rs2 slot left unwritten
set_2operands_no_constant(b, operands, rs2) ==
    IF b.panicked \/ Len(operands) # 2 THEN Panicked
    ELSE set_rs1(set_rd(b, operands[1]), operands[2])

set_2operands(b, operands, rs2) ==
    IF b.panicked \/ Len(operands) # 2 THEN Panicked
    ELSE SetValue(set_rs1(set_rd(b, operands[1]), operands[2]), 20, 24, rs2, 5)

\* str::parse::<u8>: an optional "+", then one or more digits, value at most 255
RECURSIVE ParseDigits(_, _)
ParseDigits(s, acc) ==
    IF s = <<>> THEN [panicked |-> FALSE, val |-> acc]
    ELSE IF ~IsDigit(Head(s)) THEN [panicked |-> TRUE, val |-> 0]
    ELSE IF acc * 10 + DigitValue(Head(s)) > 255 THEN [panicked |-> TRUE, val |-> 0]
    ELSE ParseDigits(Tail(s), acc * 10 + DigitValue(Head(s)))

\* operands[2].parse::<u8>().unwrap()
parse_u8(s) ==
    IF s = <<>> THEN [panicked |-> TRUE, val |-> 0]
    ELSE IF Len(s) = 1 /\ s[1] \in {"+", "-"} THEN [panicked |-> TRUE, val |-> 0]
    ELSE IF s[1] = "+" THEN ParseDigits(Tail(s), 0)
    ELSE ParseDigits(s, 0)

set_immediate(b, operands) ==
    IF b.panicked \/ ~HasOperand(operands, 0) THEN Panicked
    ELSE LET b1 == set_rd(b, operands[1])
         IN  IF b1.panicked \/ ~HasOperand(operands, 1) THEN Panicked
             ELSE LET b2 == set_rs1(b1, operands[2])
                  IN  IF b2.panicked \/ ~HasOperand(operands, 2) THEN Panicked
                      ELSE LET shamt == parse_u8(operands[3])
                           IN  IF shamt.panicked THEN Panicked
                               ELSE set_shamt(b2, shamt.val)

\* {:02x}
HexDigits == <<"0", "1", "2", "3", "4", "5", "6", "7", "8", "9", "a", "b", "c", "d", "e", "f">>

Hex02(byte) == <<"0x", HexDigits[(byte \div 16) + 1], HexDigits[(byte % 16) + 1]>>

\* only the first of the two pairing checks made
fmt_binary_one_sided(b) ==
    IF b.panicked THEN [panicked |-> TRUE, text |-> <<>>]
    ELSE IF b.flag_shamt /\ ~b.flag_funct6 THEN [panicked |-> TRUE, text |-> <<>>]
    ELSE [panicked |-> FALSE,
          text |-> <<".byte", SP>> \o Hex02(b.data[1]) \o <<COMMA>> \o Hex02(b.data[2])
                   \o <<COMMA>> \o Hex02(b.data[3]) \o <<COMMA>> \o Hex02(b.data[4])]

\* impl fmt::Display for BinaryInstruction
fmt_binary(b) ==
    IF b.panicked THEN [panicked |-> TRUE, text |-> <<>>]
    ELSE IF b.flag_shamt /\ ~b.flag_funct6 THEN [panicked |-> TRUE, text |-> <<>>]
    ELSE IF ~b.flag_shamt /\ b.flag_funct6 THEN [panicked |-> TRUE, text |-> <<>>]
    ELSE [panicked |-> FALSE,
          text |-> <<".byte", SP>> \o Hex02(b.data[1]) \o <<COMMA>> \o Hex02(b.data[2])
                   \o <<COMMA>> \o Hex02(b.data[3]) \o <<COMMA>> \o Hex02(b.data[4])]

\* dump: the bits of a field as digits, most significant first
dump(bits) == [i \in 1..Len(bits) |-> DigitAtoms[bits[Len(bits) + 1 - i] + 1]]

to_bits_string(b) ==
    <<"funct7: ">> \o dump(get(b, 25, 31)) \o <<" rs2: ">> \o dump(get(b, 20, 24))
    \o <<" rs1: ">> \o dump(get(b, 15, 19)) \o <<" funct3: ">> \o dump(get(b, 12, 14))
    \o <<" rd: ">> \o dump(get(b, 7, 11)) \o <<" opcode: ">> \o dump(get(b, 0, 6))

-----------------------------------------------------------------------------
(* TextInstruction *)

\* Option<String>: raw is a record, "some" telling Some from None
NoRaw == [some |-> FALSE, text |-> <<>>]

TextInstruction_new == [opcode |-> <<>>, operands |-> <<>>, raw |-> NoRaw]

\* Vec<String>::join(",")
RECURSIVE join(_)
join(operands) ==
    IF operands = <<>> THEN <<>>
    ELSE IF Len(operands) = 1 THEN operands[1]
    ELSE operands[1] \o <<COMMA>> \o join(Tail(operands))

\* impl fmt::Display for TextInstruction
fmt_text(i) == i.opcode \o <<SP>> \o join(i.operands)

\* the four recipe shapes of convert, each applied to a fresh buffer in the
\* order of the source: opcode, funct3, funct7 or funct6, operands
RType(opcode, funct3, funct7, operands) ==
    set_operands(set_funct7(set_funct3(set_opcode(new, opcode), funct3), funct7), operands)

ShiftImm(opcode, funct3, funct6, operands) ==
    set_immediate(set_funct6(set_funct3(set_opcode(new, opcode), funct3), funct6), operands)

Unary(opcode, funct3, funct7, operands, rs2) ==
    set_2operands(set_funct7(set_funct3(set_opcode(new, opcode), funct3), funct7),
                  operands, rs2)

\* the roriw arm: parse operands[2], pop it, then set_2operands with the amount
Roriw(opcode, funct3, funct7, operands) ==
    LET b == set_funct7(set_funct3(set_opcode(new, opcode), funct3), funct7)
    IN  IF ~HasOperand(operands, 2) THEN Panicked
        ELSE LET shamt == parse_u8(operands[3])
             IN  IF shamt.panicked THEN Panicked
                 ELSE set_2operands(b, SubSeq(operands, 1, Len(operands) - 1), shamt.val)

\* the match of convert, one arm per mnemonic; OTHER is the arm "_ => None"
Recipe(i) ==
    LET op == IF Len(i.opcode) = 1 THEN i.opcode[1] ELSE ""
    IN
        CASE op = "add.uw" -> RType(\b0111011, 0, \b0000100, i.operands)
          [] op = "andn" -> RType(\b0110011, \b111, \b0100000, i.operands)
          [] op = "bclr" -> RType(\b0110011, \b001, \b0100100, i.operands)
          [] op = "bclri" -> ShiftImm(\b0010011, \b001, \b010010, i.operands)
          [] op = "bext" -> RType(\b0110011, \b101, \b0100100, i.operands)
          [] op = "bexti" -> ShiftImm(\b0010011, \b101, \b010010, i.operands)
          [] op = "binv" -> RType(\b0110011, \b001, \b0110100, i.operands)
          [] op = "binvi" -> ShiftImm(\b0010011, \b001, \b011010, i.operands)
          [] op = "bset" -> RType(\b0110011, \b001, \b0010100, i.operands)
          [] op = "bseti" -> ShiftImm(\b0010011, \b001, \b001010, i.operands)
          [] op = "clmul" -> RType(\b0110011, \b001, \b0000101, i.operands)
          [] op = "clmulh" -> RType(\b0110011, \b011, \b0000101, i.operands)
          [] op = "clmulr" -> RType(\b0110011, \b010, \b0000101, i.operands)
          [] op = "clz" -> Unary(\b0010011, \b001, \b0110000, i.operands, 0)
          [] op = "clzw" -> Unary(\b0011011, \b001, \b0110000, i.operands, 0)
          [] op = "cpop" -> Unary(\b0010011, \b001, \b0110000, i.operands, \b00010)
          [] op = "cpopw" -> Unary(\b0011011, \b001, \b0110000, i.operands, \b00010)
          [] op = "ctz" -> Unary(\b0010011, \b001, \b0110000, i.operands, \b00001)
          [] op = "ctzw" -> Unary(\b0011011, \b001, \b0110000, i.operands, \b00001)
          [] op = "max" -> RType(\b0110011, \b110, \b0000101, i.operands)
          [] op = "maxu" -> RType(\b0110011, \b111, \b0000101, i.operands)
          [] op = "min" -> RType(\b0110011, \b100, \b0000101, i.operands)
          [] op = "minu" -> RType(\b0110011, \b101, \b0000101, i.operands)
          [] op = "orc.b" -> Unary(\b0010011, \b101, \b0010100, i.operands, \b00111)
          [] op = "orn" -> RType(\b0110011, \b110, \b0100000, i.operands)
          [] op = "rev8" -> Unary(\b0010011, \b101, \b0110101, i.operands, \b11000)
          [] op = "rol" -> RType(\b0110011, \b001, \b0110000, i.operands)
          [] op = "rolw" -> RType(\b0111011, \b001, \b0110000, i.operands)
          [] op = "ror" -> RType(\b110011, \b101, \b0110000, i.operands)
          [] op = "rori" -> ShiftImm(\b0010011, \b101, \b011000, i.operands)
          [] op = "roriw" -> Roriw(\b0011011, \b101, \b0110000, i.operands)
          [] op = "rorw" -> RType(\b0111011, \b101, \b0110000, i.operands)
          [] op = "sext.b" -> Unary(\b0010011, \b001, \b0110000, i.operands, \b00100)
          [] op = "sext.h" -> Unary(\b0010011, \b001, \b0110000, i.operands, \b00101)
          [] op = "sh1add" -> RType(\b0110011, \b010, \b0010000, i.operands)
          [] op = "sh1add.uw" -> RType(\b0111011, \b010, \b0010000, i.operands)
          [] op = "sh2add" -> RType(\b0110011, \b100, \b0010000, i.operands)
          [] op = "sh2add.uw" -> RType(\b0111011, \b100, \b0010000, i.operands)
          [] op = "sh3add" -> RType(\b0110011, \b110, \b0010000, i.operands)
          [] op = "sh3add.uw" -> RType(\b0111011, \b110, \b0010000, i.operands)
          [] op = "slli.uw" -> ShiftImm(\b0011011, \b001, \b000010, i.operands)
          [] op = "xnor" -> RType(\b0110011, \b100, \b0100000, i.operands)
          [] op = "zext.h" -> Unary(\b0111011, \b100, \b0000100, i.operands, \b00000)
          [] OTHER -> new

Mnemonics ==
    {"add.uw", "andn", "bclr", "bclri", "bext", "bexti", "binv", "binvi",
     "bset", "bseti", "clmul", "clmulh", "clmulr", "clz", "clzw", "cpop",
     "cpopw", "ctz", "ctzw", "max", "maxu", "min", "minu", "orc.b",
     "orn", "rev8", "rol", "rolw", "ror", "rori", "roriw", "rorw",
     "sext.b", "sext.h", "sh1add", "sh1add.uw", "sh2add", "sh2add.uw", "sh3add", "sh3add.uw",
     "slli.uw", "xnor", "zext.h"}

IsMnemonic(opcode) == Len(opcode) = 1 /\ opcode[1] \in Mnemonics

\* TextInstruction::convert: Option<BinaryInstruction>, or a panic
convert(i) ==
    IF ~IsMnemonic(i.opcode) THEN [kind |-> "None", bin |-> new]
    ELSE LET b == Recipe(i)
         IN  IF b.panicked THEN [kind |-> "panic", bin |-> Panicked]
             ELSE [kind |-> "Some", bin |-> b]

-----------------------------------------------------------------------------
(* parse_line and the callers: the test harness and main *)

\* str::find(" "): the position of the first space, 0 when there is none
RECURSIVE FindSpace(_, _)
FindSpace(s, k) ==
    IF k > Len(s) THEN 0
    ELSE IF s[k] = SP THEN k
    ELSE FindSpace(s, k + 1)

\* str::split(sep): the pieces between the separators, empty pieces kept
RECURSIVE Split(_, _, _)
Split(s, sep, piece) ==
    IF s = <<>> THEN <<piece>>
    ELSE IF Head(s) = sep THEN <<piece>> \o Split(Tail(s), sep, <<>>)
    ELSE Split(Tail(s), sep, Append(piece, Head(s)))

RECURSIVE TrimStart(_)
TrimStart(s) ==
    IF s # <<>> /\ IsWhitespace(Head(s)) THEN TrimStart(Tail(s)) ELSE s

RECURSIVE TrimEnd(_)
TrimEnd(s) ==
    IF s # <<>> /\ IsWhitespace(s[Len(s)]) THEN TrimEnd(SubSeq(s, 1, Len(s) - 1)) ELSE s

\* only the leading whitespace removed
trim_start_only(s) == TrimStart(s)

\* str::trim
trim(s) == TrimEnd(TrimStart(s))

\* str::to_lowercase, on the atoms of the model: the upper-case words of the
\* pools fold to their lower-case spelling, every other atom is unchanged
LowerAtom(a) ==
    CASE a = "A0" -> "a0"
      [] a = "XOR" -> "xor"
      [] a = "CLZ" -> "clz"
      [] OTHER -> a

to_lowercase(s) == [k \in 1..Len(s) |-> LowerAtom(s[k])]

NonEmpty(r) == Len(r) > 0

\* the filter of empty operands left out
parse_line_no_filter(l) ==
    IF Len(Split(l, SP, <<>>)) >= 2
    THEN LET fields == Split(l, SP, <<>>)
             index == FindSpace(l, 1)
             pieces == Split(SubSeq(l, index + 1, Len(l)), COMMA, <<>>)
             trimmed == [k \in 1..Len(pieces) |-> trim(pieces[k])]
         IN  [opcode |-> fields[1], operands |-> trimmed, raw |-> NoRaw]
    ELSE [TextInstruction_new EXCEPT !.raw = [some |-> TRUE, text |-> l]]

parse_line(l) ==
    IF Len(Split(l, SP, <<>>)) >= 2
    THEN LET fields == Split(l, SP, <<>>)
             index == FindSpace(l, 1)
             pieces == Split(SubSeq(l, index + 1, Len(l)), COMMA, <<>>)
             trimmed == [k \in 1..Len(pieces) |-> trim(pieces[k])]
         IN  [opcode |-> fields[1],
              operands |-> SelectSeq(trimmed, NonEmpty),
              raw |-> NoRaw]
    ELSE [TextInstruction_new EXCEPT !.raw = [some |-> TRUE, text |-> l]]

-----------------------------------------------------------------------------
(* State *)

NoResult == [kind |-> "unset", bin |-> new]

NoOutput == [panicked |-> FALSE, lines |-> <<>>]

\* no call made yet: op names the method called last, n counts the calls made,
\* the other fields hold the arguments and the result of the call
NoCall == [op |-> "none", n |-> 0, begin |-> 0, end |-> 0, bits |-> <<>>,
           val |-> 0, count |-> 0, name |-> <<>>]

\* the parts of the state a run does not use keep these values
NoText == raw_line = <<>> /\ line = <<>>

NoBuffer == buf = new /\ prev = new /\ last = NoCall /\ calls = {}

NoEncode == inst = TextInstruction_new /\ res = NoResult /\ out = NoOutput

Str(a) == <<a>>

-----------------------------------------------------------------------------
(* Encoding one TextInstruction, as the test harness does (fn test) *)

\* let inst2 = inst.convert();
Convert ==
    /\ pc = "parsed"
    /\ res' = convert(inst)
    /\ pc' = IF res'.kind = "panic" THEN "panicked" ELSE "converted"
    /\ UNCHANGED <<overflow_checks, raw_line, line, inst, out, buf, prev, last, calls>>

\* i.to_string() of the encoded instruction, or format!("{}", inst) of the text
Render ==
    /\ pc = "converted"
    /\ out' = IF res.kind = "Some"
              THEN LET r == fmt_binary(res.bin)
                   IN  [panicked |-> r.panicked,
                        lines |-> IF r.panicked THEN <<>> ELSE <<r.text>>]
              ELSE [panicked |-> FALSE, lines |-> <<fmt_text(inst)>>]
    /\ pc' = "done"
    /\ UNCHANGED <<overflow_checks, raw_line, line, inst, res, buf, prev, last, calls>>

NextEncode == Convert \/ Render

\* the encode runs start from a TextInstruction drawn from `inputs`
InitEncode(inputs) ==
    /\ pc = "parsed"
    /\ overflow_checks \in BOOLEAN
    /\ inst \in inputs
    /\ res = NoResult
    /\ out = NoOutput
    /\ NoText
    /\ NoBuffer

Instruction(op, operands) == [opcode |-> <<op>>, operands |-> operands, raw |-> NoRaw]

\* register operands the encode runs draw from: one register for each bit of
\* the 5-bit field (1, 2, 4, 8, 16), both spellings of register 8, zero, and
\* t6 (all five bits set)
OperandRegs == {"zero", "ra", "sp", "tp", "s0", "fp", "a6", "t6"}

RegOperands(n) == [1..n -> {Str(r) : r \in OperandRegs}]

ThreeRegister ==
    {"add.uw", "andn", "bclr", "bext", "binv", "bset", "clmul", "clmulh", "clmulr",
     "max", "maxu", "min", "minu", "orn", "rol", "rolw", "ror", "rorw", "sh1add",
     "sh1add.uw", "sh2add", "sh2add.uw", "sh3add", "sh3add.uw", "xnor"}

\* the instructions of test_adduw, test_andn, test_bclr and test_others
Fixtures ==
    {Instruction("add.uw", <<Str("a2"), Str("s11"), Str("s5")>>),
     Instruction("andn", <<Str("zero"), Str("tp"), Str("s6")>>),
     Instruction("bclr", <<Str("s10"), Str("a4"), Str("a5")>>),
     Instruction("sh3add.uw", <<Str("a3"), Str("s5"), Str("gp")>>)}

\* every name of the table in one position, the other two being zero
OneRegisterVaried ==
    {[k \in 1..3 |-> IF k = p THEN Str(r) ELSE Str("zero")] :
        p \in 1..3, r \in DOMAIN REG_MAP}

ThreeRegisterInputs ==
    {Instruction(m, ops) : m \in ThreeRegister, ops \in RegOperands(3) \cup OneRegisterVaried}
    \cup Fixtures

InitThreeRegister == InitEncode(ThreeRegisterInputs)

SpecThreeRegister == InitThreeRegister /\ [][NextEncode]_vars

-----------------------------------------------------------------------------
(* C1: three-register mnemonics *)

\* the fixed fields of each three-register mnemonic (opcode, funct3, funct7),
\* in decimal
FixedFields(m) ==
    CASE m = "add.uw" -> [opcode |-> 59, funct3 |-> 0, funct7 |-> 4]
      [] m = "andn" -> [opcode |-> 51, funct3 |-> 7, funct7 |-> 32]
      [] m = "bclr" -> [opcode |-> 51, funct3 |-> 1, funct7 |-> 36]
      [] m = "bext" -> [opcode |-> 51, funct3 |-> 5, funct7 |-> 36]
      [] m = "binv" -> [opcode |-> 51, funct3 |-> 1, funct7 |-> 52]
      [] m = "bset" -> [opcode |-> 51, funct3 |-> 1, funct7 |-> 20]
      [] m = "clmul" -> [opcode |-> 51, funct3 |-> 1, funct7 |-> 5]
      [] m = "clmulh" -> [opcode |-> 51, funct3 |-> 3, funct7 |-> 5]
      [] m = "clmulr" -> [opcode |-> 51, funct3 |-> 2, funct7 |-> 5]
      [] m = "max" -> [opcode |-> 51, funct3 |-> 6, funct7 |-> 5]
      [] m = "maxu" -> [opcode |-> 51, funct3 |-> 7, funct7 |-> 5]
      [] m = "min" -> [opcode |-> 51, funct3 |-> 4, funct7 |-> 5]
      [] m = "minu" -> [opcode |-> 51, funct3 |-> 5, funct7 |-> 5]
      [] m = "orn" -> [opcode |-> 51, funct3 |-> 6, funct7 |-> 32]
      [] m = "rol" -> [opcode |-> 51, funct3 |-> 1, funct7 |-> 48]
      [] m = "rolw" -> [opcode |-> 59, funct3 |-> 1, funct7 |-> 48]
      [] m = "ror" -> [opcode |-> 51, funct3 |-> 5, funct7 |-> 48]
      [] m = "rorw" -> [opcode |-> 59, funct3 |-> 5, funct7 |-> 48]
      [] m = "sh1add" -> [opcode |-> 51, funct3 |-> 2, funct7 |-> 16]
      [] m = "sh1add.uw" -> [opcode |-> 59, funct3 |-> 2, funct7 |-> 16]
      [] m = "sh2add" -> [opcode |-> 51, funct3 |-> 4, funct7 |-> 16]
      [] m = "sh2add.uw" -> [opcode |-> 59, funct3 |-> 4, funct7 |-> 16]
      [] m = "sh3add" -> [opcode |-> 51, funct3 |-> 6, funct7 |-> 16]
      [] m = "sh3add.uw" -> [opcode |-> 59, funct3 |-> 6, funct7 |-> 16]
      [] m = "xnor" -> [opcode |-> 51, funct3 |-> 4, funct7 |-> 32]

\* the four bytes of a word, least significant first
LittleEndian(w) == <<w % 256, (w \div 256) % 256, (w \div 65536) % 256, w \div 16777216>>

\* the text ".byte 0x..,0x..,0x..,0x.." of four bytes
ByteDirective(bytes) ==
    <<".byte", " ">> \o Hex02(bytes[1]) \o <<",">> \o Hex02(bytes[2]) \o <<",">>
    \o Hex02(bytes[3]) \o <<",">> \o Hex02(bytes[4])

Rendered(text) == [panicked |-> FALSE, lines |-> <<text>>]

IsThreeRegisterCase ==
    /\ pc \in {"converted", "panicked", "done"}
    /\ Len(inst.opcode) = 1 /\ inst.opcode[1] \in ThreeRegister
    /\ Len(inst.operands) = 3
    /\ \A k \in 1..3 : RegLookup(inst.operands[k])

ThreeRegisterWord ==
    LET f == FixedFields(inst.opcode[1])
    IN  f.opcode + REG_MAP[inst.operands[1][1]] * 2^7 + f.funct3 * 2^12
        + REG_MAP[inst.operands[2][1]] * 2^15 + REG_MAP[inst.operands[3][1]] * 2^20
        + f.funct7 * 2^25

FixtureOutput(op, operands, text) ==
    (pc = "done" /\ inst = Instruction(op, operands)) => out = Rendered(text)

\* C1: for every three-register mnemonic and every triple of valid register
\* names, convert returns the word opcode + rd*2^7 + funct3*2^12 + rs1*2^15 +
\* rs2*2^20 + funct7*2^25 with the mnemonic's fixed fields, rendering emits its
\* four bytes least significant first, and the four regression fixtures render
\* as documented.
C1_ThreeRegisterEncoding ==
    /\ IsThreeRegisterCase =>
        /\ res.kind = "Some"
        /\ res.bin.data = LittleEndian(ThreeRegisterWord)
        /\ pc = "done" => out = Rendered(ByteDirective(LittleEndian(ThreeRegisterWord)))
    /\ FixtureOutput("add.uw", <<Str("a2"), Str("s11"), Str("s5")>>,
            <<".byte", " ", "0x", "3", "b", ",", "0x", "8", "6", ",",
              "0x", "5", "d", ",", "0x", "0", "9">>)
    /\ FixtureOutput("andn", <<Str("zero"), Str("tp"), Str("s6")>>,
            <<".byte", " ", "0x", "3", "3", ",", "0x", "7", "0", ",",
              "0x", "6", "2", ",", "0x", "4", "1">>)
    /\ FixtureOutput("bclr", <<Str("s10"), Str("a4"), Str("a5")>>,
            <<".byte", " ", "0x", "3", "3", ",", "0x", "1", "d", ",",
              "0x", "f", "7", ",", "0x", "4", "8">>)
    /\ FixtureOutput("sh3add.uw", <<Str("a3"), Str("s5"), Str("gp")>>,
            <<".byte", " ", "0x", "b", "b", ",", "0x", "e", "6", ",",
              "0x", "3", "a", ",", "0x", "2", "0">>)

\* an instruction outside the fixtures, with rd = t6 (all five bits set), has
\* been encoded and rendered
C1_Witness ==
    /\ pc = "done"
    /\ inst = Instruction("xnor", <<Str("t6"), Str("fp"), Str("a6")>>)
    /\ out = Rendered(<<".byte", " ", "0x", "b", "3", ",", "0x", "4", "f", ",",
                        "0x", "0", "4", ",", "0x", "4", "1">>)

-----------------------------------------------------------------------------
(* C2: unary mnemonics *)

UnaryMnemonics ==
    {"clz", "clzw", "cpop", "cpopw", "ctz", "ctzw", "sext.b", "sext.h", "orc.b",
     "rev8", "zext.h"}

UnaryInputs == {Instruction(m, ops) : m \in UnaryMnemonics, ops \in RegOperands(2)}

InitUnary == InitEncode(UnaryInputs)

SpecUnary == InitUnary /\ [][NextEncode]_vars

\* the 32-bit word held in the four bytes, and one field of it
Word(data) == data[1] + 256 * data[2] + 65536 * data[3] + 16777216 * data[4]

Field(data, low, width) == (Word(data) \div 2^low) % 2^width

IsUnaryCase ==
    /\ pc \in {"converted", "panicked", "done"}
    /\ Len(inst.opcode) = 1 /\ inst.opcode[1] \in UnaryMnemonics
    /\ Len(inst.operands) = 2
    /\ \A k \in 1..2 : RegLookup(inst.operands[k])

\* the constants as the claim assigns them: 0, 1, 2, 4, 5, 7, 0x18, 0 in the
\* order clz/clzw, cpop/cpopw, ctz/ctzw, sext.b, sext.h, orc.b, rev8, zext.h
ClaimedSelector(m) ==
    CASE m \in {"clz", "clzw"} -> 0
      [] m \in {"cpop", "cpopw"} -> 1
      [] m \in {"ctz", "ctzw"} -> 2
      [] m = "sext.b" -> 4
      [] m = "sext.h" -> 5
      [] m = "orc.b" -> 7
      [] m = "rev8" -> 24
      [] m = "zext.h" -> 0

\* the same with the values of cpop/cpopw and ctz/ctzw exchanged
AmendedSelector(m) ==
    CASE m \in {"cpop", "cpopw"} -> 2
      [] m \in {"ctz", "ctzw"} -> 1
      [] OTHER -> ClaimedSelector(m)

\* C2 as stated: bits 20-24 of a unary mnemonic's word hold 0, 1, 2, 4, 5, 7,
\* 0x18, 0 for clz/clzw, cpop/cpopw, ctz/ctzw, sext.b, sext.h, orc.b, rev8,
\* zext.h, whatever the two register operands are.
C2_SelectorAsClaimed ==
    IsUnaryCase =>
        /\ res.kind = "Some"
        /\ Field(res.bin.data, 20, 5) = ClaimedSelector(inst.opcode[1])

\* C2 amended: bits 20-24 of a unary mnemonic's word do not depend on the
\* operands and hold 0 for clz/clzw, 2 for cpop/cpopw, 1 for ctz/ctzw, 4 for
\* sext.b, 5 for sext.h, 7 for orc.b, 0x18 for rev8 and 0 for zext.h.
C2_SelectorAmended ==
    IsUnaryCase =>
        /\ res.kind = "Some"
        /\ Field(res.bin.data, 20, 5) = AmendedSelector(inst.opcode[1])

\* cpop with two different registers has been encoded: the slot holds 2
C2_Witness ==
    /\ pc = "done"
    /\ inst = Instruction("cpop", <<Str("a6"), Str("t6")>>)
    /\ res.kind = "Some"
    /\ Field(res.bin.data, 20, 5) = 2
    /\ ~out.panicked

-----------------------------------------------------------------------------
(* C3, C6: shift-immediate mnemonics *)

\* the largest shift amount of the contiguous range the model writes out
MaxShamtText == 70

RECURSIVE DecDigits(_)
DecDigits(n) ==
    IF n < 10 THEN <<DigitAtoms[n + 1]>>
    ELSE Append(DecDigits(n \div 10), DigitAtoms[(n % 10) + 1])

\* the decimal text of an integer
Dec(n) == IF n < 0 THEN <<"-">> \o DecDigits(-n) ELSE DecDigits(n)

\* shift amounts written in decimal: the contiguous range, the edges of u8,
\* and negative amounts
ShamtValues == (0..MaxShamtText) \cup {127, 128, 255, 256, 257, 300, 1000} \cup {-1, -32, -64}

\* the operand texts of the shift amount, each with the integer it denotes
ShamtTexts ==
    {[text |-> Dec(n), val |-> n] : n \in ShamtValues}
    \cup {[text |-> <<"+", "7">>, val |-> 7], [text |-> <<"0", "0", "7">>, val |-> 7],
          [text |-> <<"+", "6", "4">>, val |-> 64], [text |-> <<"0", "3", "2">>, val |-> 32]}

ShiftImm6 == {"bclri", "bexti", "binvi", "bseti", "rori", "slli.uw"}

ShiftImmMnemonics == ShiftImm6 \cup {"roriw"}

ShiftImmInputs ==
    {Instruction(m, ops \o <<t.text>>) :
        m \in ShiftImmMnemonics, ops \in RegOperands(2), t \in ShamtTexts}

InitShiftImm == InitEncode(ShiftImmInputs)

SpecShiftImm == InitShiftImm /\ [][NextEncode]_vars

IsShiftImmCase ==
    /\ pc \in {"converted", "panicked", "done"}
    /\ Len(inst.opcode) = 1 /\ inst.opcode[1] \in ShiftImmMnemonics
    /\ Len(inst.operands) = 3
    /\ \A k \in 1..2 : RegLookup(inst.operands[k])
    /\ \E t \in ShamtTexts : t.text = inst.operands[3]

\* the integer the third operand denotes
Shamt == (CHOOSE t \in ShamtTexts : t.text = inst.operands[3]).val

\* the largest amount the mnemonic takes: 6 bits, 5 bits for roriw
ShamtLimit(m) == IF m = "roriw" THEN 31 ELSE 63

\* the fixed fields of the shift-immediate mnemonics, in decimal: opcode,
\* funct3, and funct6 (funct7 for roriw)
ShiftFields(m) ==
    CASE m = "bclri" -> [opcode |-> 19, funct3 |-> 1, funct |-> 18]
      [] m = "bexti" -> [opcode |-> 19, funct3 |-> 5, funct |-> 18]
      [] m = "binvi" -> [opcode |-> 19, funct3 |-> 1, funct |-> 26]
      [] m = "bseti" -> [opcode |-> 19, funct3 |-> 1, funct |-> 10]
      [] m = "rori" -> [opcode |-> 19, funct3 |-> 5, funct |-> 24]
      [] m = "slli.uw" -> [opcode |-> 27, funct3 |-> 1, funct |-> 2]
      [] m = "roriw" -> [opcode |-> 27, funct3 |-> 5, funct |-> 48]

ShiftImmWord ==
    LET m == inst.opcode[1]
        f == ShiftFields(m)
    IN  f.opcode + REG_MAP[inst.operands[1][1]] * 2^7 + f.funct3 * 2^12
        + REG_MAP[inst.operands[2][1]] * 2^15 + Shamt * 2^20
        + f.funct * (IF m = "roriw" THEN 2^25 ELSE 2^26)

\* C3: bclri, bexti, binvi, bseti, rori and slli.uw with 0 <= N <= 63 place N
\* in bits 20-25 and funct6 in bits 26-31 with both markers set; roriw with
\* 0 <= N <= 31 places N in bits 20-24 and funct7 0b0110000 in bits 25-31 with
\* neither marker set; rd, funct3, rs1 and opcode are in their normal
\* positions, and rendering succeeds.
C3_ShiftImmEncoding ==
    (IsShiftImmCase /\ Shamt \in 0..ShamtLimit(inst.opcode[1])) =>
        /\ res.kind = "Some"
        /\ res.bin.data = LittleEndian(ShiftImmWord)
        /\ res.bin.flag_shamt = (inst.opcode[1] # "roriw")
        /\ res.bin.flag_funct6 = (inst.opcode[1] # "roriw")
        /\ pc = "done" => out = Rendered(ByteDirective(LittleEndian(ShiftImmWord)))

\* rori with the amount 63, which needs all six bits, has been rendered
C3_Witness ==
    /\ pc = "done"
    /\ inst = Instruction("rori", <<Str("t6"), Str("fp"), <<"6", "3">>>>)
    /\ res.bin.flag_shamt /\ res.bin.flag_funct6
    /\ Field(res.bin.data, 20, 6) = 63
    /\ Field(res.bin.data, 26, 6) = 24
    /\ ~out.panicked /\ Len(out.lines) = 1

\* C6: a shift amount outside [0,63] (outside [0,31] for roriw) is a fatal
\* error: convert returns no word for it, masked or otherwise.
C6_ShamtOutOfRangeRejected ==
    (IsShiftImmCase /\ Shamt \notin 0..ShamtLimit(inst.opcode[1])) =>
        /\ res.kind = "panic"
        /\ pc = "panicked"
        /\ out = NoOutput

\* roriw with the amount 32, which fits six bits but not five, has been rejected
C6_Witness ==
    /\ pc = "panicked"
    /\ res.kind = "panic"
    /\ inst = Instruction("roriw", <<Str("t6"), Str("fp"), <<"3", "2">>>>)

-----------------------------------------------------------------------------
(* C4: operand counts *)

\* the longest operand list the model hands to convert
MaxOperands == 4

\* operand texts of the arity runs: a register and a shift amount
ArityOperands == {Str("a6"), <<"5">>}

OperandLists == UNION {[1..n -> ArityOperands] : n \in 0..MaxOperands}

\* opcodes outside the extension
OtherOpcodes == {"add", "xor"}

ArityInputs ==
    {Instruction(m, ops) : m \in Mnemonics \cup OtherOpcodes, ops \in OperandLists}

InitArity == InitEncode(ArityInputs)

SpecArity == InitArity /\ [][NextEncode]_vars

\* the number of operands each recipe expects
ExpectedArity(m) == IF m \in UnaryMnemonics THEN 2 ELSE 3

\* C4: for every supported mnemonic, convert with a number of operands other
\* than the one its recipe expects is a fatal error; no word is returned,
\* whether the operands are too few or too many.
C4_WrongArityIsFatal ==
    (/\ pc \in {"converted", "panicked", "done"}
     /\ IsMnemonic(inst.opcode)
     /\ Len(inst.operands) # ExpectedArity(inst.opcode[1]))
        => res.kind = "panic"

-----------------------------------------------------------------------------
(* main: one line of the input, from the text read to the lines printed *)

\* the longest input line, in atoms
MaxLineLen == 6

\* the atoms of the input lines: a word that is no mnemonic, an upper-case
\* register name, the space, the comma and the tab
LineAtoms == {"xor", "A0", SP, COMMA, TAB}

\* lines written out in full: the two lines of test_add, a B-extension
\* instruction, and one in upper case
FixtureLines ==
    {<<"add", SP, "t6", COMMA, SP, "t6", COMMA, SP, "s0">>,
     <<"xor", SP, "t6", COMMA, SP, "t6", COMMA, SP, "s6">>,
     <<"add.uw", SP, "a2", COMMA, SP, "s11", COMMA, SP, "s5">>,
     <<SP, "CLZ", SP, "A0", COMMA, "A0", TAB>>}

Lines == UNION {[1..n -> LineAtoms] : n \in 0..MaxLineLen} \cup FixtureLines

InitMain ==
    /\ pc = "read"
    /\ overflow_checks \in BOOLEAN
    /\ raw_line \in Lines
    /\ line = <<>>
    /\ NoEncode
    /\ NoBuffer

\* main, from content.split("\n") to the collect of all_text_inst: the line is
\* trimmed, lower-cased and parsed
ParseLines ==
    /\ pc = "read"
    /\ line' = to_lowercase(trim(raw_line))
    /\ inst' = parse_line(line')
    /\ pc' = "parsed_all"
    /\ UNCHANGED <<overflow_checks, raw_line, res, out, buf, prev, last, calls>>

\* println!: the lines printed for a converted instruction, up to a panic of
\* its Display
PrintConverted(is_debug, i, bin) ==
    LET head == (IF is_debug
                 THEN <<<<"#", SP, "Encoding", SP>> \o to_bits_string(bin)>>
                 ELSE <<>>)
                \o <<<<"#", SP>> \o fmt_text(i)>>
        r == fmt_binary(bin)
    IN  IF r.panicked THEN [panicked |-> TRUE, lines |-> head]
        ELSE [panicked |-> FALSE, lines |-> Append(head, r.text)]

\* the body of the loop over all_text_inst
Emit(is_debug) ==
    /\ pc = "parsed_all"
    /\ IF inst.raw.some
       THEN /\ out' = [panicked |-> FALSE, lines |-> <<inst.raw.text>>]
            /\ res' = res
            /\ pc' = "printed"
       ELSE /\ res' = convert(inst)
            /\ out' = CASE res'.kind = "panic" -> [panicked |-> TRUE, lines |-> <<>>]
                        [] res'.kind = "Some" -> PrintConverted(is_debug, inst, res'.bin)
                        [] OTHER -> [panicked |-> FALSE, lines |-> <<fmt_text(inst)>>]
            /\ pc' = IF out'.panicked THEN "panicked" ELSE "printed"
    /\ UNCHANGED <<overflow_checks, raw_line, line, inst, buf, prev, last, calls>>

NextMain == ParseLines \/ \E is_debug \in BOOLEAN : Emit(is_debug)

SpecMain == InitMain /\ [][NextMain]_vars

-----------------------------------------------------------------------------
(* C5: passthrough of instructions outside the extension *)

\* a whitespace atom is around a separator when nothing but whitespace lies
\* between it and a comma, or an end of the operand text, on one of its sides
AroundSeparator(t, k) ==
    LET before == {j \in 1..(k - 1) : ~IsWhitespace(t[j])}
        after == {j \in (k + 1)..Len(t) : ~IsWhitespace(t[j])}
    IN  /\ IsWhitespace(t[k])
        /\ \/ before = {}
           \/ t[CHOOSE j \in before : \A i \in before : i <= j] = COMMA
           \/ after = {}
           \/ t[CHOOSE j \in after : \A i \in after : j <= i] = COMMA

RECURSIVE StripFrom(_, _)
StripFrom(t, k) ==
    IF k > Len(t) THEN <<>>
    ELSE (IF AroundSeparator(t, k) THEN <<>> ELSE <<t[k]>>) \o StripFrom(t, k + 1)

StripSeparatorWhitespace(t) == StripFrom(t, 1)

\* a comma separates two operands when it opens its run of commas and some
\* operand text lies before it and after it
Separates(t, k) ==
    /\ k > 1 /\ t[k - 1] # COMMA
    /\ \E j \in (k + 1)..Len(t) : t[j] # COMMA

RECURSIVE DropFrom(_, _)
DropFrom(t, k) ==
    IF k > Len(t) THEN <<>>
    ELSE (IF t[k] # COMMA \/ Separates(t, k) THEN <<t[k]>> ELSE <<>>) \o DropFrom(t, k + 1)

DropEmptyOperands(t) == DropFrom(t, 1)

\* the line up to and including its first space, and the operand text after it
OpcodePart(l) == SubSeq(l, 1, FindSpace(l, 1))

OperandText(l) == SubSeq(l, FindSpace(l, 1) + 1, Len(l))

RECURSIVE CommaJoined(_)
CommaJoined(ops) ==
    IF Len(ops) = 0 THEN <<>>
    ELSE IF Len(ops) = 1 THEN ops[1]
    ELSE CommaJoined(SubSeq(ops, 1, Len(ops) - 1)) \o <<",">> \o ops[Len(ops)]

\* an instruction (not a raw line) whose opcode is no supported mnemonic has
\* gone through the loop body
IsPassthroughCase ==
    /\ pc \in {"printed", "panicked"}
    /\ ~inst.raw.some
    /\ ~IsMnemonic(inst.opcode)

RenderedAsText ==
    /\ res.kind = "None"
    /\ pc = "printed"
    /\ out = Rendered(inst.opcode \o <<" ">> \o CommaJoined(inst.operands))

\* C5 as stated: an unsupported opcode gives None without a fatal error, the
\* instruction is rendered as the opcode, one space and the operands joined by
\* ",", and that text is the input line except for the whitespace around the
\* operand separators.
C5_PassthroughAsClaimed ==
    IsPassthroughCase =>
        /\ RenderedAsText
        /\ out.lines[1] = OpcodePart(line) \o StripSeparatorWhitespace(OperandText(line))

\* C5 amended: ... and that text is the input line except that the whitespace
\* around the operand separators is removed and empty operands are dropped
\* together with their separators.
C5_PassthroughAmended ==
    IsPassthroughCase =>
        /\ RenderedAsText
        /\ out.lines[1] =
              OpcodePart(line)
              \o DropEmptyOperands(StripSeparatorWhitespace(OperandText(line)))

\* the first line of test_add has been printed as "add t6,t6,s0"
C5_Witness ==
    /\ pc = "printed"
    /\ line = <<"add", SP, "t6", COMMA, SP, "t6", COMMA, SP, "s0">>
    /\ res.kind = "None"
    /\ out = Rendered(<<"add", SP, "t6", COMMA, "t6", COMMA, "s0">>)

-----------------------------------------------------------------------------
(* Field setters applied to a fresh buffer, in any order, then rendered *)

\* the most setter calls made on one buffer
MaxCalls == 4

\* the arguments the setters are called with: a value that fits the field
\* and, for shamt and funct6, one that does not; a register name of the table
\* and one that is not in it
ShamtArgs == {63, 64}

Funct6Args == {24, 64}

RegisterArgs == {Str("t6"), Str("x31")}

\* the setters a call runs: itself and those it calls
Callees(op) ==
    CASE op = "set_operands" -> {"set_operands", "set_rd", "set_rs1", "set_rs2"}
      [] op = "set_2operands" -> {"set_2operands", "set_rd", "set_rs1"}
      [] op = "set_immediate" -> {"set_immediate", "set_rd", "set_rs1", "set_shamt"}
      [] OTHER -> {op}

InitSetters ==
    /\ pc = "building"
    /\ overflow_checks \in BOOLEAN
    /\ buf = new
    /\ prev = new
    /\ last = NoCall
    /\ calls = {}
    /\ NoText
    /\ NoEncode

\* the state after the setter `op` returned `b`, or panicked
Called(op, b) ==
    /\ pc = "building"
    /\ last.n < MaxCalls
    /\ prev' = buf
    /\ buf' = b
    /\ last' = [NoCall EXCEPT !.op = op, !.n = last.n + 1]
    /\ calls' = IF b.panicked THEN calls ELSE calls \cup Callees(op)
    /\ pc' = IF b.panicked THEN "panicked" ELSE "building"
    /\ UNCHANGED <<overflow_checks, raw_line, line, inst, res, out>>

SetOpcode == Called("set_opcode", set_opcode(buf, \b0010011))

SetRd == \E r \in RegisterArgs : Called("set_rd", set_rd(buf, r))

SetFunct3 == Called("set_funct3", set_funct3(buf, \b101))

SetRs1 == \E r \in RegisterArgs : Called("set_rs1", set_rs1(buf, r))

SetRs2 == \E r \in RegisterArgs : Called("set_rs2", set_rs2(buf, r))

SetShamt == \E v \in ShamtArgs : Called("set_shamt", set_shamt(buf, v))

SetFunct6 == \E v \in Funct6Args : Called("set_funct6", set_funct6(buf, v))

SetFunct7 == Called("set_funct7", set_funct7(buf, \b0110000))

SetOperands ==
    Called("set_operands", set_operands(buf, <<Str("t6"), Str("fp"), Str("a6")>>))

Set2Operands ==
    Called("set_2operands", set_2operands(buf, <<Str("t6"), Str("fp")>>, \b11000))

SetImmediate ==
    Called("set_immediate", set_immediate(buf, <<Str("t6"), Str("fp"), <<"6", "3">>>>))

\* to_string() of the buffer
Format ==
    /\ pc = "building"
    /\ LET r == fmt_binary(buf)
       IN  out' = [panicked |-> r.panicked,
                   lines |-> IF r.panicked THEN <<>> ELSE <<r.text>>]
    /\ pc' = "done"
    /\ UNCHANGED <<overflow_checks, raw_line, line, inst, res, buf, prev, last, calls>>

NextSetters ==
    \/ SetOpcode \/ SetRd \/ SetFunct3 \/ SetRs1 \/ SetRs2
    \/ SetShamt \/ SetFunct6 \/ SetFunct7
    \/ SetOperands \/ Set2Operands \/ SetImmediate
    \/ Format

SpecSetters == InitSetters /\ [][NextSetters]_vars

\* C7: rendering a buffer reached by any sequence of field setters succeeds
\* only if set_shamt and set_funct6 have both been called or both not been
\* called; when exactly one of them has been called rendering is a fatal
\* error and no byte directive is emitted.
C7_PairingCheckedAtRendering ==
    pc = "done" =>
        /\ ~out.panicked => (("set_shamt" \in calls) <=> ("set_funct6" \in calls))
        /\ (("set_shamt" \in calls) # ("set_funct6" \in calls)) =>
                (out.panicked /\ out.lines = <<>>)

\* set_funct6 was called, set_shamt was not, and rendering panicked
C7_Witness ==
    /\ pc = "done"
    /\ "set_funct6" \in calls
    /\ "set_shamt" \notin calls
    /\ out.panicked

-----------------------------------------------------------------------------
(* C8: set and get on a buffer that earlier writes have filled *)

\* the widest bit sequence SetRange writes
MaxFieldBits == 6

Ones(n) == [k \in 1..n |-> 1]

Zeros(n) == [k \in 1..n |-> 0]

\* earlier writes: all ones, all zeros, alternating bits, and two ranges that
\* cross a byte boundary
EarlierWrites ==
    {[begin |-> 0, end |-> 31, bits |-> Ones(32)],
     [begin |-> 0, end |-> 31, bits |-> Zeros(32)],
     [begin |-> 0, end |-> 31, bits |-> [k \in 1..32 |-> k % 2]],
     [begin |-> 4, end |-> 11, bits |-> Ones(8)],
     [begin |-> 20, end |-> 27, bits |-> Zeros(8)]}

\* the writes the claim is about: every range of at most MaxFieldBits bits
\* within the word, with every bit sequence of its length
RangeWrites ==
    {[begin |-> b, end |-> b + n - 1, bits |-> s] :
        <<b, n, s>> \in UNION {{<<b, n, s>> : b \in 0..(32 - n), s \in [1..n -> {0, 1}]} :
                                n \in 1..MaxFieldBits}}

\* writes that break the contract of set: past bit 31, a length that differs
\* from the range, an element that is no bit, a range that ends before it begins
BadWrites ==
    {[begin |-> 30, end |-> 32, bits |-> Ones(3)],
     [begin |-> 3, end |-> 4, bits |-> <<1>>],
     [begin |-> 3, end |-> 4, bits |-> <<2, 0>>],
     [begin |-> 4, end |-> 3, bits |-> <<>>],
     [begin |-> 4, end |-> 2, bits |-> <<>>]}

InitField ==
    /\ pc = "filling"
    /\ overflow_checks \in BOOLEAN
    /\ buf = new
    /\ prev = new
    /\ last = NoCall
    /\ calls = {}
    /\ NoText
    /\ NoEncode

\* an earlier write to the buffer
Fill ==
    /\ pc = "filling"
    /\ \E w \in EarlierWrites : buf' = set(buf, w.begin, w.end, w.bits)
    /\ UNCHANGED <<pc, overflow_checks, raw_line, line, inst, res, out, prev, last, calls>>

\* set(begin, end, bits), the write under study; the buffer before it is kept
SetRange ==
    /\ pc = "filling"
    /\ \E w \in RangeWrites \cup BadWrites :
        /\ buf' = set(buf, w.begin, w.end, w.bits)
        /\ last' = [NoCall EXCEPT !.op = "set", !.begin = w.begin, !.end = w.end,
                                  !.bits = w.bits, !.n = 1]
    /\ prev' = buf
    /\ pc' = IF buf'.panicked THEN "panicked" ELSE "written"
    /\ UNCHANGED <<overflow_checks, raw_line, line, inst, res, out, calls>>

NextField == Fill \/ SetRange

SpecField == InitField /\ [][NextField]_vars

\* bit `index` of the word
BitAt(data, index) == (data[(index \div 8) + 1] \div 2^(index % 8)) % 2

\* C8: after set(begin, end, bits) with 0 <= begin <= end <= 31 and bits of
\* length end-begin+1 over {0,1}, on a buffer reached by earlier writes,
\* get(begin, end) returns exactly bits and every bit outside [begin, end]
\* has the value it had before the write.
C8_SetGetRoundTrip ==
    (/\ pc \in {"written", "panicked"}
     /\ 0 <= last.begin /\ last.begin <= last.end /\ last.end <= 31
     /\ Len(last.bits) = last.end - last.begin + 1
     /\ \A k \in 1..Len(last.bits) : last.bits[k] \in {0, 1})
        => /\ pc = "written"
           /\ get(buf, last.begin, last.end) = last.bits
           /\ \A i \in 0..31 :
                (i < last.begin \/ i > last.end) => BitAt(buf.data, i) = BitAt(prev.data, i)

\* bits 6..9, across the first byte boundary, of an all-ones word have been
\* overwritten with 0,1,0,0
C8_Witness ==
    /\ pc = "written"
    /\ prev.data = <<255, 255, 255, 255>>
    /\ last.begin = 6 /\ last.end = 9 /\ last.bits = <<0, 1, 0, 0>>
    /\ buf.data = <<191, 252, 255, 255>>

-----------------------------------------------------------------------------
(* C9: bits_array on its own *)

\* the largest width bits_array is called with
MaxWidth == 9

InitBits ==
    /\ pc = "bits"
    /\ overflow_checks \in BOOLEAN
    /\ buf = new
    /\ prev = new
    /\ last \in {[NoCall EXCEPT !.op = "bits_array", !.val = val, !.count = count] :
                    val \in 0..255, count \in 0..MaxWidth}
    /\ calls = {}
    /\ NoText
    /\ NoEncode

\* bits_array(val, count); a result is kept in last.bits
BitsArray ==
    /\ pc = "bits"
    /\ LET r == bits_array(last.val, last.count)
       IN  /\ last' = [last EXCEPT !.bits = r.bits, !.n = 1]
           /\ pc' = IF r.panicked THEN "panicked" ELSE "returned"
    /\ UNCHANGED <<overflow_checks, raw_line, line, inst, res, out, buf, prev, calls>>

NextBits == BitsArray

SpecBits == InitBits /\ [][NextBits]_vars

RECURSIVE SumBits(_, _)
SumBits(bits, k) ==
    IF k > Len(bits) THEN 0 ELSE bits[k] * 2^(k - 1) + SumBits(bits, k + 1)

\* the result is the W bits of V, least significant first
IsBitsOf(bits, V, W) ==
    /\ Len(bits) = W
    /\ \A k \in 1..W : bits[k] \in {0, 1} /\ bits[k] = (V \div 2^(k - 1)) % 2
    /\ SumBits(bits, 1) = V

BitsArrayLaw(widths) ==
    (pc \in {"returned", "panicked"} /\ last.count \in widths) =>
        IF last.val < 2^last.count
        THEN pc = "returned" /\ IsBitsOf(last.bits, last.val, last.count)
        ELSE pc = "panicked"

\* C9 as stated: for all widths W and values V < 2^W, bits_array(V, W) is the
\* W bits of V, element i being bit i, and sums back to V; for V >= 2^W it is
\* a fatal error.
C9_BitsArrayAllWidths == BitsArrayLaw(0..MaxWidth)

\* C9 amended: the same for all widths W <= 7, the widest field of the word;
\* V is a byte.
C9_BitsArrayUpTo7 == BitsArrayLaw(0..7)

\* 0b1010011 has been expanded to seven bits
C9_Witness ==
    /\ pc = "returned"
    /\ last.val = 83 /\ last.count = 7
    /\ last.bits = <<1, 1, 0, 0, 1, 0, 1>>

-----------------------------------------------------------------------------
(* C10: the register table *)

\* names that are not in the table: upper case, the x-names, near misses,
\* the empty text and a name with a space after it
UnknownNames ==
    {Str(n) : n \in {"ZERO", "RA", "SP", "FP", "S0", "A0", "T6", "Zero", "Fp",
                     "x0", "x1", "x8", "x31", "s12", "a8", "t7", "pc", "r0"}}
    \cup {<<>>, <<"a0", SP>>, <<SP, "a0">>, <<"s1", COMMA>>}

TableNames == {Str(n) : n \in DOMAIN REG_MAP}

InitRegister ==
    /\ pc = "resolve"
    /\ overflow_checks \in BOOLEAN
    /\ last \in {[NoCall EXCEPT !.op = "reg_name2value", !.name = n] :
                    n \in TableNames \cup UnknownNames}
    /\ buf = new
    /\ prev = new
    /\ calls = {}
    /\ NoText
    /\ NoEncode

\* reg_name2value(name); the value returned is kept in last.val
Resolve ==
    /\ pc = "resolve"
    /\ LET r == reg_name2value(last.name)
       IN  /\ last' = [last EXCEPT !.val = r.val, !.n = 1]
           /\ pc' = IF r.panicked THEN "panicked" ELSE "resolved"
    /\ UNCHANGED <<overflow_checks, raw_line, line, inst, res, out, buf, prev, calls>>

NextRegister == Resolve

SpecRegister == InitRegister /\ [][NextRegister]_vars

\* the 32 architectural register names, in the order of their numbers
Architectural ==
    <<"zero", "ra", "sp", "gp", "tp", "t0", "t1", "t2", "s0", "s1", "a0", "a1", "a2",
      "a3", "a4", "a5", "a6", "a7", "s2", "s3", "s4", "s5", "s6", "s7", "s8", "s9",
      "s10", "s11", "t3", "t4", "t5", "t6">>

\* C10: the table has exactly 33 names, the 32 architectural names and fp;
\* resolving a name of the table gives a value in [0,31], every value 0..31 is
\* covered, fp and s0 both give 8; resolving any other name, upper case
\* included, is a fatal error and gives no register number.
C10_RegisterTable ==
    /\ Cardinality(DOMAIN REG_MAP) = 33
    /\ DOMAIN REG_MAP = {Architectural[k] : k \in 1..32} \cup {"fp"}
    /\ {REG_MAP[n] : n \in DOMAIN REG_MAP} = 0..31
    /\ pc \in {"resolved", "panicked"} =>
        IF last.name \in TableNames
        THEN /\ pc = "resolved"
             /\ last.val \in 0..31
             /\ last.name[1] \in {"fp", "s0"} => last.val = 8
        ELSE pc = "panicked"

\* fp has been resolved to 8
C10_Witness ==
    /\ pc = "resolved"
    /\ last.name = Str("fp")
    /\ last.val = 8

-----------------------------------------------------------------------------
(* C11: lines that are not an opcode and operands *)

\* the whitespace-separated tokens of a line, each named by the place of the
\* atom that opens it
TokenStarts(l) ==
    {k \in 1..Len(l) : ~IsWhitespace(l[k]) /\ (k = 1 \/ IsWhitespace(l[k - 1]))}

FewerThanTwoTokens(l) == Cardinality(TokenStarts(l)) < 2

\* the line from its first atom that is no whitespace to its last one
Stripped(l) ==
    LET solid == {k \in 1..Len(l) : ~IsWhitespace(l[k])}
    IN  IF solid = {} THEN <<>>
        ELSE SubSeq(l, CHOOSE k \in solid : \A j \in solid : k <= j,
                       CHOOSE k \in solid : \A j \in solid : j <= k)

\* a line of the input with fewer than 2 tokens has gone through the loop body
IsFewTokensCase ==
    /\ pc \in {"printed", "panicked"}
    /\ FewerThanTwoTokens(raw_line)

\* marked as raw by parse_line, nothing split off, and printed as one line
\* that is the text `t`
PassedThroughAs(t) ==
    /\ pc = "printed"
    /\ inst = [opcode |-> <<>>, operands |-> <<>>, raw |-> [some |-> TRUE, text |-> t]]
    /\ res = NoResult
    /\ out = Rendered(t)

\* C11 as stated: every input line with fewer than 2 whitespace-separated
\* tokens is marked as raw passthrough by parse_line and is emitted exactly as
\* it was given, character for character, with no opcode/operand split and no
\* re-rendering.
C11_RawAsClaimed ==
    IsFewTokensCase => PassedThroughAs(raw_line)

\* C11 amended: every input line with fewer than 2 whitespace-separated tokens
\* is marked as raw passthrough by parse_line and is emitted as main handed it
\* to parse_line: its leading and trailing whitespace removed and its letters
\* in lower case, otherwise character for character, with no opcode/operand
\* split and no re-rendering.
C11_RawAmended ==
    IsFewTokensCase =>
        /\ line = to_lowercase(Stripped(raw_line))
        /\ PassedThroughAs(line)

\* the line "\tA0 " has been printed as "a0"
C11_Witness ==
    /\ pc = "printed"
    /\ raw_line = <<TAB, "A0", SP>>
    /\ inst.raw = [some |-> TRUE, text |-> <<"a0">>]
    /\ out = Rendered(<<"a0">>)

-----------------------------------------------------------------------------
(* convert, one field setter at a time *)

\* the arms of convert: the call that writes the operands (for roriw, the
\* arm's own parse, pop and set_2operands), and the constants the arm passes
\* to set_opcode, set_funct3, set_funct7 or set_funct6 (set_funct6 in the
\* set_immediate arms) and, as `rs2`, to set_2operands
Arm(op) ==
    CASE op = "add.uw" -> [shape |-> "set_operands", opcode |-> \b0111011, funct3 |-> 0, funct |-> \b0000100, rs2 |-> 0]
      [] op = "andn" -> [shape |-> "set_operands", opcode |-> \b0110011, funct3 |-> \b111, funct |-> \b0100000, rs2 |-> 0]
      [] op = "bclr" -> [shape |-> "set_operands", opcode |-> \b0110011, funct3 |-> \b001, funct |-> \b0100100, rs2 |-> 0]
      [] op = "bclri" -> [shape |-> "set_immediate", opcode |-> \b0010011, funct3 |-> \b001, funct |-> \b010010, rs2 |-> 0]
      [] op = "bext" -> [shape |-> "set_operands", opcode |-> \b0110011, funct3 |-> \b101, funct |-> \b0100100, rs2 |-> 0]
      [] op = "bexti" -> [shape |-> "set_immediate", opcode |-> \b0010011, funct3 |-> \b101, funct |-> \b010010, rs2 |-> 0]
      [] op = "binv" -> [shape |-> "set_operands", opcode |-> \b0110011, funct3 |-> \b001, funct |-> \b0110100, rs2 |-> 0]
      [] op = "binvi" -> [shape |-> "set_immediate", opcode |-> \b0010011, funct3 |-> \b001, funct |-> \b011010, rs2 |-> 0]
      [] op = "bset" -> [shape |-> "set_operands", opcode |-> \b0110011, funct3 |-> \b001, funct |-> \b0010100, rs2 |-> 0]
      [] op = "bseti" -> [shape |-> "set_immediate", opcode |-> \b0010011, funct3 |-> \b001, funct |-> \b001010, rs2 |-> 0]
      [] op = "clmul" -> [shape |-> "set_operands", opcode |-> \b0110011, funct3 |-> \b001, funct |-> \b0000101, rs2 |-> 0]
      [] op = "clmulh" -> [shape |-> "set_operands", opcode |-> \b0110011, funct3 |-> \b011, funct |-> \b0000101, rs2 |-> 0]
      [] op = "clmulr" -> [shape |-> "set_operands", opcode |-> \b0110011, funct3 |-> \b010, funct |-> \b0000101, rs2 |-> 0]
      [] op = "clz" -> [shape |-> "set_2operands", opcode |-> \b0010011, funct3 |-> \b001, funct |-> \b0110000, rs2 |-> 0]
      [] op = "clzw" -> [shape |-> "set_2operands", opcode |-> \b0011011, funct3 |-> \b001, funct |-> \b0110000, rs2 |-> 0]
      [] op = "cpop" -> [shape |-> "set_2operands", opcode |-> \b0010011, funct3 |-> \b001, funct |-> \b0110000, rs2 |-> \b00010]
      [] op = "cpopw" -> [shape |-> "set_2operands", opcode |-> \b0011011, funct3 |-> \b001, funct |-> \b0110000, rs2 |-> \b00010]
      [] op = "ctz" -> [shape |-> "set_2operands", opcode |-> \b0010011, funct3 |-> \b001, funct |-> \b0110000, rs2 |-> \b00001]
      [] op = "ctzw" -> [shape |-> "set_2operands", opcode |-> \b0011011, funct3 |-> \b001, funct |-> \b0110000, rs2 |-> \b00001]
      [] op = "max" -> [shape |-> "set_operands", opcode |-> \b0110011, funct3 |-> \b110, funct |-> \b0000101, rs2 |-> 0]
      [] op = "maxu" -> [shape |-> "set_operands", opcode |-> \b0110011, funct3 |-> \b111, funct |-> \b0000101, rs2 |-> 0]
      [] op = "min" -> [shape |-> "set_operands", opcode |-> \b0110011, funct3 |-> \b100, funct |-> \b0000101, rs2 |-> 0]
      [] op = "minu" -> [shape |-> "set_operands", opcode |-> \b0110011, funct3 |-> \b101, funct |-> \b0000101, rs2 |-> 0]
      [] op = "orc.b" -> [shape |-> "set_2operands", opcode |-> \b0010011, funct3 |-> \b101, funct |-> \b0010100, rs2 |-> \b00111]
      [] op = "orn" -> [shape |-> "set_operands", opcode |-> \b0110011, funct3 |-> \b110, funct |-> \b0100000, rs2 |-> 0]
      [] op = "rev8" -> [shape |-> "set_2operands", opcode |-> \b0010011, funct3 |-> \b101, funct |-> \b0110101, rs2 |-> \b11000]
      [] op = "rol" -> [shape |-> "set_operands", opcode |-> \b0110011, funct3 |-> \b001, funct |-> \b0110000, rs2 |-> 0]
      [] op = "rolw" -> [shape |-> "set_operands", opcode |-> \b0111011, funct3 |-> \b001, funct |-> \b0110000, rs2 |-> 0]
      [] op = "ror" -> [shape |-> "set_operands", opcode |-> \b110011, funct3 |-> \b101, funct |-> \b0110000, rs2 |-> 0]
      [] op = "rori" -> [shape |-> "set_immediate", opcode |-> \b0010011, funct3 |-> \b101, funct |-> \b011000, rs2 |-> 0]
      [] op = "roriw" -> [shape |-> "roriw", opcode |-> \b0011011, funct3 |-> \b101, funct |-> \b0110000, rs2 |-> 0]
      [] op = "rorw" -> [shape |-> "set_operands", opcode |-> \b0111011, funct3 |-> \b101, funct |-> \b0110000, rs2 |-> 0]
      [] op = "sext.b" -> [shape |-> "set_2operands", opcode |-> \b0010011, funct3 |-> \b001, funct |-> \b0110000, rs2 |-> \b00100]
      [] op = "sext.h" -> [shape |-> "set_2operands", opcode |-> \b0010011, funct3 |-> \b001, funct |-> \b0110000, rs2 |-> \b00101]
      [] op = "sh1add" -> [shape |-> "set_operands", opcode |-> \b0110011, funct3 |-> \b010, funct |-> \b0010000, rs2 |-> 0]
      [] op = "sh1add.uw" -> [shape |-> "set_operands", opcode |-> \b0111011, funct3 |-> \b010, funct |-> \b0010000, rs2 |-> 0]
      [] op = "sh2add" -> [shape |-> "set_operands", opcode |-> \b0110011, funct3 |-> \b100, funct |-> \b0010000, rs2 |-> 0]
      [] op = "sh2add.uw" -> [shape |-> "set_operands", opcode |-> \b0111011, funct3 |-> \b100, funct |-> \b0010000, rs2 |-> 0]
      [] op = "sh3add" -> [shape |-> "set_operands", opcode |-> \b0110011, funct3 |-> \b110, funct |-> \b0010000, rs2 |-> 0]
      [] op = "sh3add.uw" -> [shape |-> "set_operands", opcode |-> \b0111011, funct3 |-> \b110, funct |-> \b0010000, rs2 |-> 0]
      [] op = "slli.uw" -> [shape |-> "set_immediate", opcode |-> \b0011011, funct3 |-> \b001, funct |-> \b000010, rs2 |-> 0]
      [] op = "xnor" -> [shape |-> "set_operands", opcode |-> \b0110011, funct3 |-> \b100, funct |-> \b0100000, rs2 |-> 0]
      [] op = "zext.h" -> [shape |-> "set_2operands", opcode |-> \b0111011, funct3 |-> \b100, funct |-> \b0000100, rs2 |-> \b00000]

NoArgument == [op |-> "none", val |-> 0, name |-> <<>>]

\* the calls an arm makes that write a field, in the order it makes them;
\* set_operands, set_2operands and set_immediate are unfolded into the calls
\* of their bodies, and "set" is the set(20, 24, bits_array(rs2, 5)) of
\* set_2operands
FieldCalls(i) ==
    LET a == Arm(i.opcode[1])
        value(op, v) == [NoArgument EXCEPT !.op = op, !.val = v]
        register(op, k) == [NoArgument EXCEPT !.op = op, !.name = i.operands[k]]
        fixed == <<value("set_opcode", a.opcode), value("set_funct3", a.funct3),
                   value(IF a.shape = "set_immediate" THEN "set_funct6" ELSE "set_funct7",
                         a.funct)>>
        registers == <<register("set_rd", 1), register("set_rs1", 2)>>
    IN  CASE a.shape = "set_operands" -> fixed \o registers \o <<register("set_rs2", 3)>>
          [] a.shape = "set_immediate" ->
                fixed \o registers \o <<value("set_shamt", parse_u8(i.operands[3]).val)>>
          [] a.shape = "set_2operands" -> fixed \o registers \o <<value("set", a.rs2)>>
          [] a.shape = "roriw" ->
                fixed \o registers \o <<value("set", parse_u8(i.operands[3]).val)>>

\* one call of FieldCalls made on the buffer b
ApplyCall(b, c) ==
    CASE c.op = "set_opcode" -> set_opcode(b, c.val)
      [] c.op = "set_funct3" -> set_funct3(b, c.val)
      [] c.op = "set_funct7" -> set_funct7(b, c.val)
      [] c.op = "set_funct6" -> set_funct6(b, c.val)
      [] c.op = "set_rd" -> set_rd(b, c.name)
      [] c.op = "set_rs1" -> set_rs1(b, c.name)
      [] c.op = "set_rs2" -> set_rs2(b, c.name)
      [] c.op = "set_shamt" -> set_shamt(b, c.val)
      [] c.op = "set" -> SetValue(b, 20, 24, c.val, 5)

AllOnes == [new EXCEPT !.data = <<255, 255, 255, 255>>]

\* the bits of the word a call writes: set clears or sets every bit of its
\* range and touches no other, so these are the bits that come out the same
\* from a word of zeros and from a word of ones
WrittenBits(c) ==
    LET zeros == ApplyCall(new, c).data
        ones == ApplyCall(AllOnes, c).data
    IN  {k \in 0..31 : (zeros[(k \div 8) + 1] \div Pow2(k % 8)) % 2
                       = (ones[(k \div 8) + 1] \div Pow2(k % 8)) % 2}

\* register operands of the recipe runs: registers 0, 8 (by its alias) and 31,
\* and a name that is not in the table
RecipeRegs == {Str(r) : r \in {"zero", "fp", "t6", "x31"}}

\* shift amounts of the recipe runs: the least, and the greatest that fits 5
\* bits and 6 bits with the one after it
RecipeShamts == {Dec(n) : n \in {0, 31, 32, 63, 64}}

\* every mnemonic with the number of operands its arm takes, the last one of
\* the set_immediate arms and of roriw being a decimal number
RecipeInputs ==
    {Instruction(m, ops) :
        m \in {m \in Mnemonics : Arm(m).shape = "set_operands"}, ops \in [1..3 -> RecipeRegs]}
    \cup {Instruction(m, ops) :
            m \in {m \in Mnemonics : Arm(m).shape = "set_2operands"}, ops \in [1..2 -> RecipeRegs]}
    \cup {Instruction(m, ops \o <<t>>) :
            m \in {m \in Mnemonics : Arm(m).shape \in {"set_immediate", "roriw"}},
            ops \in [1..2 -> RecipeRegs], t \in RecipeShamts}

\* let mut res = BinaryInstruction::new();
InitRecipe ==
    /\ pc = "recipe"
    /\ overflow_checks \in BOOLEAN
    /\ inst \in RecipeInputs
    /\ res = NoResult
    /\ out = NoOutput
    /\ buf = new
    /\ prev = new
    /\ last = NoCall
    /\ calls = {}
    /\ NoText

\* the next call of the arm; a call that returns is recorded in `calls` with
\* the bits it wrote
FieldCall ==
    /\ pc = "recipe"
    /\ last.n < Len(FieldCalls(inst))
    /\ LET c == FieldCalls(inst)[last.n + 1]
           b == ApplyCall(buf, c)
       IN  /\ prev' = buf
           /\ buf' = b
           /\ last' = [NoCall EXCEPT !.op = c.op, !.n = last.n + 1]
           /\ calls' = IF b.panicked THEN calls
                       ELSE calls \cup {[op |-> c.op, n |-> last.n + 1, bits |-> WrittenBits(c)]}
           /\ pc' = IF b.panicked THEN "panicked" ELSE "recipe"
    /\ UNCHANGED <<overflow_checks, raw_line, line, inst, res, out>>

\* Some(res)
ReturnSome ==
    /\ pc = "recipe"
    /\ last.n = Len(FieldCalls(inst))
    /\ res' = [kind |-> "Some", bin |-> buf]
    /\ pc' = "converted"
    /\ UNCHANGED <<overflow_checks, raw_line, line, inst, out, buf, prev, last, calls>>

NextRecipe == FieldCall \/ ReturnSome

SpecRecipe == InitRecipe /\ [][NextRecipe]_vars

-----------------------------------------------------------------------------
(* C12: the fields of a recipe neither overlap nor leave a gap *)

\* the operands are valid for the mnemonic: register names of the table, and
\* a shift amount that fits the field
HasValidOperands ==
    /\ \A k \in 1..2 : RegLookup(inst.operands[k])
    /\ inst.opcode[1] \in ThreeRegister => RegLookup(inst.operands[3])
    /\ inst.opcode[1] \in ShiftImmMnemonics =>
            \E n \in 0..ShamtLimit(inst.opcode[1]) : inst.operands[3] = Dec(n)

IsRecipeCase ==
    /\ pc \in {"converted", "panicked"}
    /\ HasValidOperands

\* the ranges the claim names: rs2 slot with funct7, or shamt with funct6
RangesWithFunct7 == {0..6, 7..11, 12..14, 15..19, 20..24, 25..31}

RangesWithFunct6 == {0..6, 7..11, 12..14, 15..19, 20..25, 26..31}

\* C12: for every supported mnemonic with valid operands, the bit ranges
\* written by the field setters its recipe calls (opcode 0-6, rd 7-11, funct3
\* 12-14, rs1 15-19, then either rs2 slot 20-24 with funct7 25-31, or shamt
\* 20-25 with funct6 26-31) are pairwise disjoint and together cover all 32
\* bits of the word: no bit is written through two fields and no bit of the
\* emitted word is left unwritten.  The word built call by call is the one
\* convert returns.
C12_FieldsDisjointAndCovering ==
    IsRecipeCase =>
        /\ pc = "converted"
        /\ res = convert(inst)
        /\ \A c, d \in calls : c # d => c.bits \cap d.bits = {}
        /\ UNION {c.bits : c \in calls} = 0..31
        /\ {c.bits : c \in calls} =
              IF "set_funct6" \in {c.op : c \in calls} THEN RangesWithFunct6
              ELSE RangesWithFunct7
        /\ Cardinality(calls) = 6

\* rori t6,fp,63 has been built from six writes: opcode, funct3, funct6, rd,
\* rs1 and shamt
C12_Witness ==
    /\ pc = "converted"
    /\ inst = Instruction("rori", <<Str("t6"), Str("fp"), <<"6", "3">>>>)
    /\ calls = {[op |-> "set_opcode", n |-> 1, bits |-> 0..6],
                [op |-> "set_funct3", n |-> 2, bits |-> 12..14],
                [op |-> "set_funct6", n |-> 3, bits |-> 26..31],
                [op |-> "set_rd", n |-> 4, bits |-> 7..11],
                [op |-> "set_rs1", n |-> 5, bits |-> 15..19],
                [op |-> "set_shamt", n |-> 6, bits |-> 20..25]}

=============================================================================
